---- MODULE Spec2Model ----
(***************************************************************************)
(* Memory-management core of the NKOF kernel: the physical memory manager  *)
(* (src/kernel/mm/pmm.c) and paging (src/kernel/mm/paging.c).              *)
(*                                                                         *)
(* Number representation.  TLC's integers are 32-bit signed, the kernel's  *)
(* are uint32_t and uint64_t, so:                                          *)
(*  - a uint32_t address or table entry w is the record [hi, lo] with      *)
(*    w = hi * 4096 + lo, hi in 0..2^20-1 (frame / page number, or the     *)
(*    frame field of an entry) and lo in 0..4095 (offset, or flag bits);   *)
(*  - a uint64_t address of the memory map is [hi, lo] likewise, with hi   *)
(*    unbounded (hi >= 2^20 is an address at or above 4 GiB);              *)
(*  - a uint64_t byte counter is the integer r that is congruent to the C  *)
(*    value modulo 2^64 and lies next to 0: r >= 0 is the C value itself,  *)
(*    r < 0 stands for the wrapped C value 2^64 + r.                       *)
(***************************************************************************)
EXTENDS Integers, Sequences, FiniteSets, TLC

\* ------------------------------------------------------------ constants
PAGE_SIZE == 4096
MEMORY_REGION_AVAILABLE == 1
MEMORY_REGION_RESERVED == 2
PAGE_PRESENT == 1
PAGE_WRITABLE == 2
RECURSIVE_INDEX == 1023
HEAP_MAGIC == 464367618
\* sizeof(block_header_t) on the 32-bit target: size, magic, is_free + 3 bytes of
\* padding, next.
HeaderSize == 16

\* Number of 4 KiB frames below 4 GiB: frame numbers wrap at this in uint32_t
\* byte addresses.
Pages4G == 1024 * 1024

\* ------------------------------------------------------------ bounds
\* Longest memory map handed to pmm_init.
MaxEntries == 2
\* Most frames handed out by pmm_alloc_page and not yet returned.
MaxOutstanding == 4
\* Heap calls made after kheap_init.
MaxCalls == 4

\* ------------------------------------------------------------ words
W(hi, lo) == [hi |-> hi, lo |-> lo]
NULL == W(0, 0)

\* base + length on uint64_t, length in bytes.
Add64(a, n) == W(a.hi + ((a.lo + n) \div PAGE_SIZE), (a.lo + n) % PAGE_SIZE)
Less64(a, b) == a.hi < b.hi \/ (a.hi = b.hi /\ a.lo < b.lo)
\* (uint32_t)x of a uint64_t address.
Trunc32(a) == W(a.hi % Pages4G, a.lo)

\* uint32_t arithmetic on words: the word of a small number, a + b, a - b and
\* a < b, the sums and differences modulo 2^32.
U32(n) == W((n \div PAGE_SIZE) % Pages4G, n % PAGE_SIZE)
Add32(a, b) ==
    LET lo == a.lo + b.lo
    IN W((a.hi + b.hi + (lo \div PAGE_SIZE)) % Pages4G, lo % PAGE_SIZE)
Sub32(a, b) ==
    LET lo == (a.lo - b.lo) + PAGE_SIZE
    IN W(((a.hi - b.hi - 1) + (lo \div PAGE_SIZE) + Pages4G) % Pages4G, lo % PAGE_SIZE)
Less32(a, b) == a.hi < b.hi \/ (a.hi = b.hi /\ a.lo < b.lo)
\* (a + 3) & ~3
Align4(a) == LET t == Add32(a, U32(3)) IN W(t.hi, t.lo - (t.lo % 4))

VARIABLES
    \* pmm.c statics
    bitmap,          \* the page bitmap, held as the set of bit indices that are 0 (free)
    bitmap_ptr,      \* the pointer `bitmap`: where the bitmap is stored
    bitmap_size,
    total_memory, used_memory, free_memory,
    total_pages,
    \* inputs of pmm_init
    memory_map,      \* the boot memory map
    kernel_end,      \* (uint32_t)&end
    \* paging.c statics and the hardware it drives
    current_directory,
    mem,             \* physical memory holding page directories and tables
    cr3, cr0_pg,
    \* observation of the last call and of the calls so far
    op,              \* the last call: [name, arg, pa, ret], and pre: whether, before the
                     \* call, the frame it names was free (pmm_alloc_page: any frame
                     \* was) or the page it names was present (paging calls)
    phase, held,     \* allocation round trip: frames returned and not yet freed
    \* kheap.c statics
    heap_total, heap_used, heap_free,
    heap_start, heap_end, heap_max,
    first_block,
    hdr,             \* the block headers in memory, by address
    halted,          \* "ok" while the kernel runs; "fault" after a page fault (the
                     \* handler halts), "hang" after a call that never returns
    live,            \* allocations returned and not yet freed: [ptr, size]
    calls            \* heap calls made so far

pmmvars == <<bitmap, bitmap_ptr, bitmap_size, total_memory, used_memory, free_memory, total_pages>>
pagingvars == <<current_directory, mem, cr3, cr0_pg>>
vars == <<bitmap, bitmap_ptr, bitmap_size, total_memory, used_memory, free_memory,
          total_pages, memory_map, kernel_end, current_directory, mem, cr3, cr0_pg,
          op, phase, held,
          heap_total, heap_used, heap_free, heap_start, heap_end, heap_max,
          first_block, hdr, halted, live, calls>>
heapvars == <<heap_total, heap_used, heap_free, heap_start, heap_end, heap_max,
              first_block, hdr, halted, live, calls>>

\* The PMM statics as one record, for the operators that model the functions.
Pmm == [bitmap |-> bitmap, bitmap_ptr |-> bitmap_ptr, bitmap_size |-> bitmap_size,
        total_memory |-> total_memory, used_memory |-> used_memory,
        free_memory |-> free_memory, total_pages |-> total_pages]

\* ------------------------------------------------------------ pmm.c
bitmap_test(P, bit) == bit \notin P.bitmap
bitmap_set(P, bit) == [P EXCEPT !.bitmap = @ \ {bit}]
bitmap_clear(P, bit) == [P EXCEPT !.bitmap = @ \cup {bit}]

\* First pass over the map: highest end address, total of the AVAILABLE
\* lengths, and the largest AVAILABLE region.
RECURSIVE ScanMap(_, _, _)
ScanMap(map, i, acc) ==
    IF i > Len(map) THEN acc
    ELSE LET entry == map[i]
             end_addr == Add64(entry.base_addr, entry.length)
             a1 == IF Less64(acc.highest_addr, end_addr)
                   THEN [acc EXCEPT !.highest_addr = end_addr] ELSE acc
             a2 == IF entry.type = MEMORY_REGION_AVAILABLE
                   THEN [a1 EXCEPT !.total_memory = @ + entry.length] ELSE a1
             a3 == IF entry.type = MEMORY_REGION_AVAILABLE
                      /\ entry.length > a2.largest_free_block
                   THEN [a2 EXCEPT !.largest_free_block = entry.length,
                                   !.largest_free_addr = entry.base_addr]
                   ELSE a2
         IN ScanMap(map, i + 1, a3)

\* Second pass: the bits cleared for the AVAILABLE regions,
\* [base / PAGE_SIZE, (base + length) / PAGE_SIZE).
AvailablePages(map) ==
    UNION { (map[i].base_addr.hi) .. (Add64(map[i].base_addr, map[i].length).hi - 1) :
              i \in { j \in 1..Len(map) : map[j].type = MEMORY_REGION_AVAILABLE } }

\* (bitmap_size + 3) & ~3 after (total_pages + 7) / 8
BitmapBytes(pages) == LET b == (pages + 7) \div 8 IN (b + 3) - ((b + 3) % 4)

\* Frames the bitmap takes, rounded down instead of up.
BitmapPagesRoundedDown(bytes) == bytes \div PAGE_SIZE

\* bitmap_pages: the frames the bitmap takes, (bitmap_size + PAGE_SIZE - 1) / PAGE_SIZE
BitmapPages(bytes) == (bytes + PAGE_SIZE - 1) \div PAGE_SIZE

\* The fallback of pmm_init, taken without a memory map.
pmm_init_default ==
    LET tm == 16 * 1024 * 1024
        tp == tm \div PAGE_SIZE
        bs == BitmapBytes(tp)
        bp == W((1024 * 1024) \div PAGE_SIZE, 0)
        safe_start == 4 * 1024 * 1024
        safe_end == 8 * 1024 * 1024
        bitmap_pages == BitmapPages(bs)
        cleared == (safe_start \div PAGE_SIZE) .. ((safe_end \div PAGE_SIZE) - 1)
    IN [bitmap |-> { p \in cleared : ~(p >= bp.hi /\ p < bp.hi + bitmap_pages) },
        bitmap_ptr |-> bp, bitmap_size |-> bs,
        total_memory |-> tm,
        free_memory |-> safe_end - safe_start,
        used_memory |-> tm - (safe_end - safe_start),
        total_pages |-> tp]

\* pmm_init with a memory map; kend is (uint32_t)&end.
pmm_init_map(map, kend) ==
    LET s == ScanMap(map, 1, [highest_addr |-> W(0, 0), largest_free_block |-> 0,
                               largest_free_addr |-> W(0, 0), total_memory |-> 0])
        tp == s.highest_addr.hi + (IF s.highest_addr.lo # 0 THEN 1 ELSE 0)
        bs == BitmapBytes(tp)
        bp == Trunc32(s.largest_free_addr)
        bitmap_pages == BitmapPages(bs)
        kernel_end_page == (kend + PAGE_SIZE - 1) \div PAGE_SIZE
        bits == { p \in AvailablePages(map) :
                    /\ ~(p >= bp.hi /\ p < bp.hi + bitmap_pages)
                    /\ ~(p < kernel_end_page) }
        fm == PAGE_SIZE * Cardinality({ i \in bits : i < tp })
    IN [bitmap |-> bits, bitmap_ptr |-> bp, bitmap_size |-> bs,
        total_memory |-> s.total_memory,
        free_memory |-> fm,
        used_memory |-> s.total_memory - fm,
        total_pages |-> tp]

pmm_init(map, kend) ==
    IF Len(map) = 0 THEN pmm_init_default ELSE pmm_init_map(map, kend)

\* The frames pmm_alloc_page's scan can find.
FreeFrames(P) == { i \in P.bitmap : i < P.total_pages }
LowestFree(P) == CHOOSE i \in FreeFrames(P) : \A j \in FreeFrames(P) : i <= j

\* pmm_alloc_page: the new statics and the returned uint32_t, i * PAGE_SIZE.
pmm_alloc_page(P) ==
    IF FreeFrames(P) = {} THEN [pmm |-> P, ret |-> W(0, 0)]
    ELSE LET i == LowestFree(P)
         IN [pmm |-> [bitmap_set(P, i) EXCEPT !.free_memory = @ - PAGE_SIZE,
                                              !.used_memory = @ + PAGE_SIZE],
             ret |-> W(i % Pages4G, 0)]

\* pmm_free_page without its already-free test.
pmm_free_page_unchecked(P, page_addr) ==
    LET page == page_addr.hi
    IN IF page >= P.total_pages THEN P
       ELSE [bitmap_clear(P, page) EXCEPT !.free_memory = @ + PAGE_SIZE,
                                          !.used_memory = @ - PAGE_SIZE]

pmm_free_page(P, page_addr) ==
    LET page == page_addr.hi
    IN IF page >= P.total_pages THEN P
       ELSE IF ~bitmap_test(P, page) THEN P
       ELSE [bitmap_clear(P, page) EXCEPT !.free_memory = @ + PAGE_SIZE,
                                          !.used_memory = @ - PAGE_SIZE]

\* pmm_mark_page_used without its already-used test.
pmm_mark_page_used_unchecked(P, page_addr) ==
    LET page == page_addr.hi
    IN IF page >= P.total_pages THEN P
       ELSE [bitmap_set(P, page) EXCEPT !.free_memory = @ - PAGE_SIZE,
                                        !.used_memory = @ + PAGE_SIZE]

pmm_mark_page_used(P, page_addr) ==
    LET page == page_addr.hi
    IN IF page >= P.total_pages THEN P
       ELSE IF bitmap_test(P, page) THEN P
       ELSE [bitmap_set(P, page) EXCEPT !.free_memory = @ - PAGE_SIZE,
                                        !.used_memory = @ + PAGE_SIZE]

pmm_is_page_free(P, page_addr) ==
    LET page == page_addr.hi
    IN IF page >= P.total_pages THEN FALSE ELSE ~bitmap_test(P, page)

\* ------------------------------------------------------------ inputs
Entry(hi, lo, len, type) == [base_addr |-> W(hi, lo), length |-> len, type |-> type]

\* Regions a boot memory map is built from: low memory, memory at 1 MiB, a
\* region with an unaligned base, a reserved hole inside the 1 MiB region, and
\* memory above 4 GiB.
MapEntries ==
    { Entry(0, 0, 2 * PAGE_SIZE, MEMORY_REGION_AVAILABLE),
      Entry(256, 0, 3 * PAGE_SIZE, MEMORY_REGION_AVAILABLE),
      Entry(512, 2048, 6144, MEMORY_REGION_AVAILABLE),
      Entry(257, 0, PAGE_SIZE, MEMORY_REGION_RESERVED),
      Entry(Pages4G + 1, 0, 2 * PAGE_SIZE, MEMORY_REGION_AVAILABLE) }

RECURSIVE SeqsUpTo(_, _)
SeqsUpTo(S, n) ==
    IF n = 0 THEN { <<>> }
    ELSE LET shorter == SeqsUpTo(S, n - 1)
         IN shorter \cup { Append(q, e) : q \in shorter, e \in S }

\* The map of the specification's first seed scenario.
SeedMap == << Entry(0, 0, 256 * PAGE_SIZE, MEMORY_REGION_RESERVED),
              Entry(256, 0, 3840 * PAGE_SIZE, MEMORY_REGION_AVAILABLE) >>

\* One AVAILABLE region of 8196 bytes whose base is 4 bytes below a page
\* boundary: the bitmap is placed at its base and runs into the next frame.
SpillMap == << Entry(512, PAGE_SIZE - 4, 2 * PAGE_SIZE + 4, MEMORY_REGION_AVAILABLE) >>

Maps == SeqsUpTo(MapEntries, MaxEntries) \cup { SeedMap, SpillMap }

\* Values of (uint32_t)&end: the test harness's 0, and a kernel image loaded at
\* 1 MiB that ends inside its first frame.
KernelEnds == { 0, 256 * PAGE_SIZE + 2048 }

\* Addresses passed to pmm_free_page and pmm_mark_page_used.
PageArgs == { W(0, 0), W(1, 0), W(257, 8), W(Pages4G - 1, 0) }

\* ------------------------------------------------------------ state machine
\* The kheap.c statics before kheap_init: zero-initialised.
HeapUnset ==
    /\ heap_total = NULL /\ heap_used = NULL /\ heap_free = NULL
    /\ heap_start = NULL /\ heap_end = NULL /\ heap_max = NULL
    /\ first_block = NULL
    /\ hdr = << >>
    /\ halted = "ok"
    /\ live = {}
    /\ calls = 0

SetPmm(P) ==
    /\ bitmap' = P.bitmap
    /\ bitmap_ptr' = P.bitmap_ptr
    /\ bitmap_size' = P.bitmap_size
    /\ total_memory' = P.total_memory
    /\ used_memory' = P.used_memory
    /\ free_memory' = P.free_memory
    /\ total_pages' = P.total_pages

Init ==
    /\ memory_map \in Maps
    /\ kernel_end \in KernelEnds
    /\ LET P == pmm_init(memory_map, kernel_end)
       IN /\ bitmap = P.bitmap
          /\ bitmap_ptr = P.bitmap_ptr
          /\ bitmap_size = P.bitmap_size
          /\ total_memory = P.total_memory
          /\ used_memory = P.used_memory
          /\ free_memory = P.free_memory
          /\ total_pages = P.total_pages
    /\ current_directory = NULL
    /\ mem = [fill |-> NULL, tab |-> << >>]
    /\ cr3 = NULL
    /\ cr0_pg = FALSE
    /\ HeapUnset
    /\ op = [name |-> "pmm_init", arg |-> NULL, pa |-> NULL, ret |-> NULL, pre |-> FALSE]
    /\ phase = "alloc"
    /\ held = << >>

\* Frames the PMM has handed out since pmm_init and not got back.
Outstanding == Cardinality(pmm_init(memory_map, kernel_end).bitmap \ bitmap)

RemoveAt(s, k) == [ j \in 1..(Len(s) - 1) |-> IF j < k THEN s[j] ELSE s[j + 1] ]

AllocPage ==
    /\ Outstanding < MaxOutstanding
    /\ LET r == pmm_alloc_page(Pmm)
       IN /\ SetPmm(r.pmm)
          /\ op' = [name |-> "pmm_alloc_page", arg |-> NULL, pa |-> NULL, ret |-> r.ret,
                    pre |-> FreeFrames(Pmm) # {}]
          /\ IF phase = "alloc" /\ r.ret # NULL
             THEN /\ phase' = "alloc"
                  /\ held' = Append(held, r.ret)
             ELSE /\ phase' = "mixed"
                  /\ held' = << >>
    /\ UNCHANGED <<memory_map, kernel_end, pagingvars, heapvars>>

FreePage(a) ==
    /\ SetPmm(pmm_free_page(Pmm, a))
    /\ op' = [name |-> "pmm_free_page", arg |-> a, pa |-> NULL, ret |-> NULL,
              pre |-> pmm_is_page_free(Pmm, a)]
    /\ IF phase \in {"alloc", "free"} /\ \E k \in 1..Len(held) : held[k] = a
       THEN /\ phase' = "free"
            /\ held' = RemoveAt(held, CHOOSE k \in 1..Len(held) : held[k] = a)
       ELSE /\ phase' = "mixed"
            /\ held' = << >>
    /\ UNCHANGED <<memory_map, kernel_end, pagingvars, heapvars>>

MarkPageUsed(a) ==
    /\ SetPmm(pmm_mark_page_used(Pmm, a))
    /\ op' = [name |-> "pmm_mark_page_used", arg |-> a, pa |-> NULL, ret |-> NULL,
              pre |-> pmm_is_page_free(Pmm, a)]
    /\ phase' = "mixed"
    /\ held' = << >>
    /\ UNCHANGED <<memory_map, kernel_end, pagingvars, heapvars>>

Next ==
    \/ AllocPage
    \/ \E a \in PageArgs \cup { held[k] : k \in 1..Len(held) } : FreePage(a)
    \/ \E a \in PageArgs : MarkPageUsed(a)

Spec == Init /\ [][Next]_vars

\* ------------------------------------------------------------ physical memory
\* mem is the content of the frames paging.c reads and writes as tables of
\* 1024 words.  mem.fill is the word every location held before the kernel
\* wrote it; mem.tab[f] is frame f once written: the words written last
\* (ent, by index) over the word the rest of the frame holds (fill).
Table(m, f) == IF f \in DOMAIN m.tab THEN m.tab[f] ELSE [fill |-> m.fill, ent |-> << >>]
WordAt(m, f, i) ==
    LET t == Table(m, f) IN IF i \in DOMAIN t.ent THEN t.ent[i] ELSE t.fill
\* The same memory is always held as the same value: no entry that equals the
\* fill, no table that equals unwritten memory.
PutTable(m, f, t) ==
    IF t.fill = m.fill /\ DOMAIN t.ent = {}
    THEN [m EXCEPT !.tab = [g \in DOMAIN m.tab \ {f} |-> m.tab[g]]]
    ELSE [m EXCEPT !.tab = (f :> t) @@ m.tab]
\* ((uint32_t*)frame f)[i] = w
WriteWord(m, f, i, w) ==
    LET t == Table(m, f)
        e == IF w = t.fill
             THEN [j \in DOMAIN t.ent \ {i} |-> t.ent[j]]
             ELSE (i :> w) @@ t.ent
    IN PutTable(m, f, [t EXCEPT !.ent = e])
\* for (i = 0; i < 1024; i++) entries[i] = 0
ClearTable(m, f) == PutTable(m, f, [fill |-> NULL, ent |-> << >>])

\* a | b on the low 12 bits.
RECURSIVE BitOr(_, _)
BitOr(a, b) ==
    IF a = 0 THEN b
    ELSE IF b = 0 THEN a
    ELSE (IF a % 2 = 1 \/ b % 2 = 1 THEN 1 ELSE 0) + 2 * BitOr(a \div 2, b \div 2)
\* w | flags, flags below 4096
OrFlags(w, flags) == W(w.hi, BitOr(w.lo, flags))
\* w & 0xFFFFF000
PageBase(w) == W(w.hi, 0)
\* w & PAGE_PRESENT
IsPresent(w) == w.lo % 2 = 1

\* ------------------------------------------------------------ paging.c
\* The state the paging functions work on: the PMM, the table memory and
\* current_directory.
Machine == [pmm |-> Pmm, mem |-> mem, current_directory |-> current_directory]

pd_index(virtual_addr) == virtual_addr.hi \div 1024
pt_index(virtual_addr) == virtual_addr.hi % 1024

\* The new state and the returned directory pointer.
create_page_directory(M) ==
    LET a == pmm_alloc_page(M.pmm)
    IN [m |-> [M EXCEPT !.pmm = a.pmm, !.mem = ClearTable(@, a.ret.hi)],
        dir |-> a.ret]

\* The new state and the returned page-table pointer (NULL is W(0, 0)).
get_or_create_page_table(M, dir, virtual_addr, create) ==
    LET pdi == pd_index(virtual_addr)
    IN IF ~IsPresent(WordAt(M.mem, dir.hi, pdi))
       THEN IF ~create THEN [m |-> M, pt |-> NULL]
            ELSE LET a == pmm_alloc_page(M.pmm)
                     pt_phys == a.ret
                     m1 == WriteWord(M.mem, dir.hi, pdi,
                                     OrFlags(pt_phys, BitOr(PAGE_PRESENT, PAGE_WRITABLE)))
                     m2 == ClearTable(m1, pt_phys.hi)
                 IN [m |-> [M EXCEPT !.pmm = a.pmm, !.mem = m2],
                     pt |-> PageBase(WordAt(m2, dir.hi, pdi))]
       ELSE [m |-> M, pt |-> PageBase(WordAt(M.mem, dir.hi, pdi))]

\* paging_map_page writing the entry after the one of va.
paging_map_page_next_entry(M, virtual_addr, physical_addr, flags) ==
    LET va == PageBase(virtual_addr)
        pa == PageBase(physical_addr)
        g == get_or_create_page_table(M, M.current_directory, va, TRUE)
    IN [g.m EXCEPT !.mem = WriteWord(@, g.pt.hi, (pt_index(va) + 1) % 1024, OrFlags(pa, flags))]

paging_map_page(M, virtual_addr, physical_addr, flags) ==
    LET va == PageBase(virtual_addr)
        pa == PageBase(physical_addr)
        g == get_or_create_page_table(M, M.current_directory, va, TRUE)
    IN [g.m EXCEPT !.mem = WriteWord(@, g.pt.hi, pt_index(va), OrFlags(pa, flags))]

\* paging_unmap_page clearing the entry at the directory index of va.
paging_unmap_page_pd_index(M, virtual_addr) ==
    LET va == PageBase(virtual_addr)
        g == get_or_create_page_table(M, M.current_directory, va, FALSE)
    IN IF g.pt # NULL
       THEN [M EXCEPT !.mem = WriteWord(@, g.pt.hi, pd_index(va), NULL)]
       ELSE M

paging_unmap_page(M, virtual_addr) ==
    LET va == PageBase(virtual_addr)
        g == get_or_create_page_table(M, M.current_directory, va, FALSE)
    IN IF g.pt # NULL
       THEN [M EXCEPT !.mem = WriteWord(@, g.pt.hi, pt_index(va), NULL)]
       ELSE M

paging_get_physical_address(M, virtual_addr) ==
    LET g == get_or_create_page_table(M, M.current_directory, virtual_addr, FALSE)
        e == WordAt(M.mem, g.pt.hi, pt_index(virtual_addr))
    IN IF g.pt = NULL \/ ~IsPresent(e) THEN NULL
       ELSE W(e.hi, virtual_addr.lo)

paging_is_page_present(M, virtual_addr) ==
    LET g == get_or_create_page_table(M, M.current_directory, virtual_addr, FALSE)
    IN IF g.pt = NULL THEN FALSE
       ELSE IsPresent(WordAt(M.mem, g.pt.hi, pt_index(virtual_addr)))

\* paging_alloc_and_map: the new state and the returned uint32_t.
paging_alloc_and_map(M, virtual_addr, flags) ==
    LET va == PageBase(virtual_addr)
        a == pmm_alloc_page(M.pmm)
    IN IF a.ret = NULL THEN [m |-> [M EXCEPT !.pmm = a.pmm], ret |-> NULL]
       ELSE [m |-> paging_map_page([M EXCEPT !.pmm = a.pmm], va, a.ret, flags),
             ret |-> va]

\* for (addr = lo pages; addr < hi pages; addr += PAGE_SIZE)
\*     paging_map_page(addr, addr, PAGE_PRESENT | PAGE_WRITABLE);
RECURSIVE IdentityMap(_, _, _)
IdentityMap(M, lo, hi) ==
    IF hi <= lo THEN M
    ELSE IF hi = lo + 1
    THEN paging_map_page(M, W(lo, 0), W(lo, 0), BitOr(PAGE_PRESENT, PAGE_WRITABLE))
    ELSE LET mid == (lo + hi) \div 2
             done == IdentityMap(M, lo, mid)
         \* TLC evaluates an operator's arguments only when they are used; the
         \* test makes it finish the first half of the loop before the second.
         IN IF done.current_directory = M.current_directory
            THEN IdentityMap(done, mid, hi)
            ELSE done

\* paging_init up to enable_paging: the new state and kernel_dir.
paging_init(M) ==
    LET c == create_page_directory(M)
        kernel_dir == c.dir
        M1 == IdentityMap(c.m, 0, (4 * 1024 * 1024) \div PAGE_SIZE)
        m2 == WriteWord(M1.mem, kernel_dir.hi, RECURSIVE_INDEX,
                        OrFlags(kernel_dir, BitOr(PAGE_PRESENT, PAGE_WRITABLE)))
    IN [m |-> [M1 EXCEPT !.mem = m2, !.current_directory = kernel_dir],
        kernel_dir |-> kernel_dir]

\* ------------------------------------------------------------ paging inputs
\* A word with PAGE_PRESENT set, as uninitialised memory may hold (0xF000FF53).
GarbageWord == W(983055, 3923)
RamFill == { NULL, GarbageWord }

\* Maps the paging runs boot from: two free frames after pmm_init, frame 0 and
\* three more, and seven.
PagingMaps ==
    { << Entry(256, 0, 3 * PAGE_SIZE, MEMORY_REGION_AVAILABLE) >>,
      << Entry(0, 0, 2 * PAGE_SIZE, MEMORY_REGION_AVAILABLE),
         Entry(256, 0, 3 * PAGE_SIZE, MEMORY_REGION_AVAILABLE) >>,
      << Entry(0, 0, 256 * PAGE_SIZE, MEMORY_REGION_RESERVED),
         Entry(256, 0, 8 * PAGE_SIZE, MEMORY_REGION_AVAILABLE) >> }

\* Virtual addresses passed to the paging calls: in the first 4 MiB, the heap
\* start 0x400000, 0x80000000, and the last page, 0xFFFFF000, which the
\* recursive slot of the directory serves.
VaArgs == { W(5, 0), W(1024, 0), W(524288, 0), W(Pages4G - 1, 0) }
PaArgs == { W(512, 0) }
\* paging_unmap_page is also called with an address inside a page.
UnmapArgs == VaArgs \cup { W(1024, 2748) }

\* Addresses passed to paging_alloc_and_map: inside the page at the heap start,
\* and 0x80000000.
AllocMapArgs == { W(1024, 2748), W(524288, 0) }

\* ------------------------------------------------------------ paging state machine
SetMachine(M) ==
    /\ SetPmm(M.pmm)
    /\ mem' = M.mem
    /\ current_directory' = M.current_directory

InitPaging ==
    /\ memory_map \in PagingMaps
    /\ kernel_end \in KernelEnds
    /\ LET P == pmm_init(memory_map, kernel_end)
       IN /\ bitmap = P.bitmap
          /\ bitmap_ptr = P.bitmap_ptr
          /\ bitmap_size = P.bitmap_size
          /\ total_memory = P.total_memory
          /\ used_memory = P.used_memory
          /\ free_memory = P.free_memory
          /\ total_pages = P.total_pages
    /\ current_directory = NULL
    /\ \E w \in RamFill : mem = [fill |-> w, tab |-> << >>]
    /\ cr3 = NULL
    /\ cr0_pg = FALSE
    /\ HeapUnset
    /\ op = [name |-> "pmm_init", arg |-> NULL, pa |-> NULL, ret |-> NULL, pre |-> FALSE]
    /\ phase = "mixed"
    /\ held = << >>

\* kernel_main runs paging_init once, right after pmm_init.
PagingInit ==
    /\ ~cr0_pg
    /\ LET r == paging_init(Machine)
       IN /\ SetMachine(r.m)
          /\ cr3' = r.kernel_dir
    /\ cr0_pg' = TRUE
    /\ op' = [name |-> "paging_init", arg |-> NULL, pa |-> NULL, ret |-> NULL, pre |-> FALSE]
    /\ UNCHANGED <<memory_map, kernel_end, phase, held, heapvars>>

MapPage(va, pa) ==
    /\ cr0_pg
    /\ SetMachine(paging_map_page(Machine, va, pa, BitOr(PAGE_PRESENT, PAGE_WRITABLE)))
    /\ op' = [name |-> "paging_map_page", arg |-> va, pa |-> pa, ret |-> NULL,
              pre |-> paging_is_page_present(Machine, va)]
    /\ UNCHANGED <<memory_map, kernel_end, cr3, cr0_pg, phase, held, heapvars>>

UnmapPage(va) ==
    /\ cr0_pg
    /\ SetMachine(paging_unmap_page(Machine, va))
    /\ op' = [name |-> "paging_unmap_page", arg |-> va, pa |-> NULL, ret |-> NULL,
              pre |-> paging_is_page_present(Machine, va)]
    /\ UNCHANGED <<memory_map, kernel_end, cr3, cr0_pg, phase, held, heapvars>>

AllocAndMap(va) ==
    /\ cr0_pg
    /\ LET r == paging_alloc_and_map(Machine, va, BitOr(PAGE_PRESENT, PAGE_WRITABLE))
       IN /\ SetMachine(r.m)
          /\ op' = [name |-> "paging_alloc_and_map", arg |-> va, pa |-> NULL, ret |-> r.ret,
                    pre |-> paging_is_page_present(Machine, va)]
    /\ UNCHANGED <<memory_map, kernel_end, cr3, cr0_pg, phase, held, heapvars>>

NextPaging ==
    \/ PagingInit
    \/ \E va \in VaArgs, pa \in PaArgs : MapPage(va, pa)
    \/ \E va \in UnmapArgs : UnmapPage(va)

SpecPaging == InitPaging /\ [][NextPaging]_vars

\* Paging with frames drawn from the PMM: paging_init, then
\* paging_alloc_and_map and paging_unmap_page in any order.
NextAllocMap ==
    \/ PagingInit
    \/ \E va \in AllocMapArgs : AllocAndMap(va)
    \/ \E va \in AllocMapArgs : UnmapPage(va)

SpecAllocMap == InitPaging /\ [][NextAllocMap]_vars

\* ------------------------------------------------------------ kheap.c
MIN_BLOCK_SIZE == HeaderSize + 4

\* The state the heap functions work on: the kheap.c statics, the headers in
\* memory, the paging state under them, whether the kernel still runs, and
\* the expand_heap calls made by the call being modelled.
Heap == [heap_total |-> heap_total, heap_used |-> heap_used, heap_free |-> heap_free,
         heap_start |-> heap_start, heap_end |-> heap_end, heap_max |-> heap_max,
         first_block |-> first_block, hdr |-> hdr, status |-> halted,
         expands |-> 0, m |-> Machine]

\* What a block_header_t read from memory that holds no header looks like: the
\* magic is wrong.
NoHeader == [size |-> NULL, magic |-> 0, is_free |-> FALSE, next |-> NULL]
HdrAt(H, a) == IF a \in DOMAIN H.hdr THEN H.hdr[a] ELSE NoHeader

\* The bytes of the header at a lie in pages that are present.
Mapped(H, a) ==
    /\ paging_is_page_present(H.m, a)
    /\ paging_is_page_present(H.m, Add32(a, U32(HeaderSize - 1)))

\* A store into the header at a: a page fault when its page is not present.
PutHdr(H, a, h) ==
    IF H.status # "ok" THEN H
    ELSE IF ~Mapped(H, a) THEN [H EXCEPT !.status = "fault"]
    ELSE [H EXCEPT !.hdr = (a :> h) @@ @]

\* for (addr = from; addr < to; addr += PAGE_SIZE)
\*     paging_alloc_and_map(addr, PAGE_PRESENT | PAGE_WRITABLE);
RECURSIVE MapPages(_, _, _)
MapPages(M, addr, to) ==
    IF ~Less32(addr, to) THEN M
    ELSE LET r == paging_alloc_and_map(M, addr, BitOr(PAGE_PRESENT, PAGE_WRITABLE))
         IN MapPages(r.m, Add32(addr, U32(PAGE_SIZE)), to)

\* while (current->next) current = current->next; the loop never ends on a
\* list that runs into itself.
RECURSIVE LastBlock(_, _, _)
LastBlock(H, current, seen) ==
    IF current \in seen THEN [hang |-> TRUE, block |-> current]
    ELSE IF HdrAt(H, current).next = NULL THEN [hang |-> FALSE, block |-> current]
    ELSE LastBlock(H, HdrAt(H, current).next, seen \cup {current})

\* The stores the heap functions make into one header field.
SetNext(H, a, n) == PutHdr(H, a, [HdrAt(H, a) EXCEPT !.next = n])
SetFree(H, a, f) == PutHdr(H, a, [HdrAt(H, a) EXCEPT !.is_free = f])

\* expand_heap, the new block: size, magic and is_free of the header at a.
NewBlock(H, a, size) ==
    PutHdr(H, a, [HdrAt(H, a) EXCEPT !.size = size, !.magic = HEAP_MAGIC, !.is_free = TRUE])

\* expand_heap: heap_total += size; heap_free += size.
AddFree(H, size) ==
    IF H.status # "ok" THEN H
    ELSE [H EXCEPT !.heap_total = Add32(@, size), !.heap_free = Add32(@, size)]

\* expand_heap: if (current->is_free) the last block absorbs the new one.
AbsorbIfFree(H, current, new_block) ==
    IF HdrAt(H, current).is_free
    THEN PutHdr(H, current, [HdrAt(H, current) EXCEPT
                                 !.size = Add32(@, HdrAt(H, new_block).size), !.next = NULL])
    ELSE H

\* expand_heap: the new block goes behind the last block of the list.
AppendBlock(H, new_block, last) ==
    IF last.hang THEN [H EXCEPT !.status = "hang"]
    ELSE AbsorbIfFree(SetNext(SetNext(H, last.block, new_block), new_block, NULL),
                      last.block, new_block)

\* expand_heap: "Add new block to the free list".
ListAppend(H, new_block) ==
    IF H.status # "ok" THEN H
    ELSE IF H.first_block = NULL
    THEN [SetNext(H, new_block, NULL) EXCEPT !.first_block = new_block]
    ELSE AppendBlock(H, new_block, LastBlock(H, H.first_block, {}))

\* expand_heap(pages), pages a size_t.
expand_heap(H, pages) ==
    LET inc == W(pages % Pages4G, 0)
        new_end == Add32(H.heap_end, inc)
    IN IF Less32(H.heap_max, new_end) THEN [H EXCEPT !.expands = @ + 1]
       ELSE ListAppend(AddFree(NewBlock([H EXCEPT !.expands = @ + 1,
                                                  !.m = MapPages(H.m, H.heap_end, new_end),
                                                  !.heap_end = new_end],
                                        H.heap_end, inc),
                               inc),
                       H.heap_end)

\* split_block: the block keeps size bytes and points at the new block.
Shrink(H, block, size) ==
    PutHdr(H, block, [HdrAt(H, block) EXCEPT !.size = size, !.next = Add32(block, size)])

\* split_block: heap_free += sizeof(block_header_t).
CountHeader(H) ==
    IF H.status # "ok" THEN H
    ELSE [H EXCEPT !.heap_free = Add32(@, U32(HeaderSize))]

split_block(H, block, size) ==
    IF Less32(HdrAt(H, block).size, Add32(size, U32(MIN_BLOCK_SIZE))) THEN H
    ELSE CountHeader(
             Shrink(PutHdr(H, Add32(block, size),
                           [size |-> Sub32(HdrAt(H, block).size, size), magic |-> HEAP_MAGIC,
                            is_free |-> TRUE, next |-> HdrAt(H, block).next]),
                    block, size))

kheap_init(H) ==
    expand_heap([H EXCEPT !.heap_start = W(1024, 0), !.heap_end = W(1024, 0),
                          !.heap_max = W(4096, 0), !.first_block = NULL], 16)

\* total_size of kmalloc: size + sizeof(header), at least MIN_BLOCK_SIZE, rounded
\* up to 4, each step in size_t arithmetic.
TotalSize(size) ==
    LET t == Add32(size, U32(HeaderSize))
    IN Align4(IF Less32(t, U32(MIN_BLOCK_SIZE)) THEN U32(MIN_BLOCK_SIZE) ELSE t)

\* (total_size + PAGE_SIZE - 1) / PAGE_SIZE
PagesFor(total_size) == Add32(total_size, U32(PAGE_SIZE - 1)).hi

\* The first-fit scan of kmalloc: "fit" with the block found, "none" at the end
\* of the list, "corrupt" at a wrong magic, "hang" on a list that runs into
\* itself through blocks that do not fit.
RECURSIVE FindFit(_, _, _, _)
FindFit(H, current, total_size, seen) ==
    IF current = NULL THEN [kind |-> "none", block |-> NULL]
    ELSE IF current \in seen THEN [kind |-> "hang", block |-> current]
    ELSE IF HdrAt(H, current).magic # HEAP_MAGIC THEN [kind |-> "corrupt", block |-> current]
    ELSE IF HdrAt(H, current).is_free /\ ~Less32(HdrAt(H, current).size, total_size)
    THEN [kind |-> "fit", block |-> current]
    ELSE FindFit(H, HdrAt(H, current).next, total_size, seen \cup {current})

RECURSIVE kmalloc(_, _)

\* kmalloc from "Update statistics" on: H has best_fit marked allocated.
Taken(H, best_fit) ==
    IF H.status # "ok" THEN [h |-> H, ret |-> NULL]
    ELSE [h |-> [H EXCEPT !.heap_used = Add32(@, HdrAt(H, best_fit).size),
                          !.heap_free = Sub32(@, HdrAt(H, best_fit).size)],
          ret |-> Add32(best_fit, U32(HeaderSize))]

\* kmalloc, "return kmalloc(size)" after expand_heap turned H into E.  A retry
\* that starts from the state the call started from repeats without end: the
\* recursion never returns.
Retry(H, E, size) ==
    IF [E EXCEPT !.expands = H.expands] = H
    THEN [h |-> [E EXCEPT !.status = "hang"], ret |-> NULL]
    ELSE kmalloc(E, size)

\* kmalloc after the scan returned f.
Scanned(H, size, total_size, f) ==
    IF f.kind = "corrupt" THEN [h |-> H, ret |-> NULL]
    ELSE IF f.kind = "hang" THEN [h |-> [H EXCEPT !.status = "hang"], ret |-> NULL]
    ELSE IF f.kind = "none" THEN Retry(H, expand_heap(H, PagesFor(total_size)), size)
    ELSE Taken(SetFree(split_block(H, f.block, total_size), f.block, FALSE), f.block)

\* kmalloc: the new state and the returned pointer.
kmalloc(H, size) ==
    IF H.status # "ok" THEN [h |-> H, ret |-> NULL]
    ELSE Scanned(H, size, TotalSize(size), FindFit(H, H.first_block, TotalSize(size), {}))

\* merge_free_blocks from current on; steps bounds the iterations a list of
\* the blocks in memory can take, a loop that outlasts it never ends.
RECURSIVE MergeFrom(_, _, _)
MergeFrom(H, current, steps) ==
    LET nxt == HdrAt(H, current).next
    IN IF current = NULL \/ nxt = NULL THEN H
       ELSE IF steps = 0 THEN [H EXCEPT !.status = "hang"]
       ELSE IF HdrAt(H, current).magic # HEAP_MAGIC \/ HdrAt(H, nxt).magic # HEAP_MAGIC THEN H
       ELSE IF HdrAt(H, current).is_free /\ HdrAt(H, nxt).is_free
       THEN MergeFrom(PutHdr(H, current,
                             [HdrAt(H, current) EXCEPT !.size = Add32(@, HdrAt(H, nxt).size),
                                                       !.next = HdrAt(H, nxt).next]),
                      current, steps - 1)
       ELSE MergeFrom(H, nxt, steps - 1)

merge_free_blocks(H) == MergeFrom(H, H.first_block, Cardinality(DOMAIN H.hdr) + 1)

\* kfree from "Update statistics" on: H has block marked free.
Released(H, block) ==
    IF H.status # "ok" THEN H
    ELSE merge_free_blocks([H EXCEPT !.heap_used = Sub32(@, HdrAt(H, block).size),
                                     !.heap_free = Add32(@, HdrAt(H, block).size)])

\* kfree without its already-free test.
kfree_unchecked(H, ptr) ==
    IF H.status # "ok" \/ ptr = NULL THEN H
    ELSE IF HdrAt(H, Sub32(ptr, U32(HeaderSize))).magic # HEAP_MAGIC THEN H
    ELSE Released(SetFree(H, Sub32(ptr, U32(HeaderSize)), TRUE), Sub32(ptr, U32(HeaderSize)))

kfree(H, ptr) ==
    IF H.status # "ok" \/ ptr = NULL THEN H
    ELSE IF HdrAt(H, Sub32(ptr, U32(HeaderSize))).magic # HEAP_MAGIC THEN H
    ELSE IF HdrAt(H, Sub32(ptr, U32(HeaderSize))).is_free THEN H
    ELSE Released(SetFree(H, Sub32(ptr, U32(HeaderSize)), TRUE), Sub32(ptr, U32(HeaderSize)))

\* krealloc once the new block is allocated: n is what kmalloc gave.
Moved(n, ptr) ==
    IF n.ret = NULL THEN n
    ELSE [h |-> kfree(n.h, ptr), ret |-> n.ret]

\* krealloc: the new state and the returned pointer (the copy of the old bytes
\* writes no header and is left out).
krealloc(H, ptr, size) ==
    IF ptr = NULL THEN kmalloc(H, size)
    ELSE IF size = NULL THEN [h |-> kfree(H, ptr), ret |-> NULL]
    ELSE IF HdrAt(H, Sub32(ptr, U32(HeaderSize))).magic # HEAP_MAGIC THEN [h |-> H, ret |-> NULL]
    ELSE IF ~Less32(Sub32(HdrAt(H, Sub32(ptr, U32(HeaderSize))).size, U32(HeaderSize)), size)
    THEN [h |-> H, ret |-> ptr]
    ELSE Moved(kmalloc(H, size), ptr)

\* a & b on numbers below 2^20.
RECURSIVE BitAnd(_, _)
BitAnd(a, b) ==
    IF a = 0 \/ b = 0 THEN 0
    ELSE (IF a % 2 = 1 /\ b % 2 = 1 THEN 1 ELSE 0) + 2 * BitAnd(a \div 2, b \div 2)
\* a & b and ~a on uint32_t.
And32(a, b) == W(BitAnd(a.hi, b.hi), BitAnd(a.lo, b.lo))
Not32(a) == W((Pages4G - 1) - a.hi, (PAGE_SIZE - 1) - a.lo)

\* The offsets of size, magic, is_free and next in block_header_t.
FieldOffsets == { 0, 4, 8, 12 }

\* The header at a after a 4-byte store of w at offset off of it.  is_free is
\* one byte, followed by three bytes of padding: it takes the low byte of w.
WithField(h, off, w) ==
    IF off = 0 THEN [h EXCEPT !.size = w]
    ELSE IF off = 4 THEN [h EXCEPT !.magic = IF w = U32(HEAP_MAGIC) THEN HEAP_MAGIC ELSE 0]
    ELSE IF off = 8 THEN [h EXCEPT !.is_free = (w.lo % 256 # 0)]
    ELSE [h EXCEPT !.next = w]

\* The headers of H, each with the store of w at address a applied when a is one
\* of its fields.
HdrStored(H, a, w) ==
    [b \in DOMAIN H.hdr |->
        IF \E off \in FieldOffsets : Add32(b, U32(off)) = a
        THEN WithField(H.hdr[b], CHOOSE off \in FieldOffsets : Add32(b, U32(off)) = a, w)
        ELSE H.hdr[b]]

\* a is a field of a header of H.
OnHeader(H, a) == \E b \in DOMAIN H.hdr, off \in FieldOffsets : Add32(b, U32(off)) = a

\* *(uint32_t*)a = w, a a multiple of 4: a page fault when the page of a is not
\* present, else a store into the headers that lie at a or, where none does,
\* into the frame the page is mapped to.
StoreWord(H, a, w) ==
    IF H.status # "ok" THEN H
    ELSE IF ~paging_is_page_present(H.m, a) THEN [H EXCEPT !.status = "fault"]
    ELSE IF OnHeader(H, a) THEN [H EXCEPT !.hdr = HdrStored(H, a, w)]
    ELSE [H EXCEPT !.m.mem = WriteWord(@, paging_get_physical_address(H.m, a).hi,
                                       a.lo \div 4, w)]

\* kmalloc_aligned from "Calculate aligned address" on: the new state, the
\* returned pointer and raw_mem.
Stored(H, raw_mem, aligned_mem) ==
    [h |-> StoreWord(H, Sub32(aligned_mem, U32(4)), raw_mem),
     ret |-> aligned_mem, raw |-> raw_mem]

\* kmalloc_aligned after kmalloc returned r.
Padded(r, alignment) ==
    IF r.ret = NULL THEN [h |-> r.h, ret |-> NULL, raw |-> NULL]
    ELSE Stored(r.h, r.ret,
                And32(Sub32(Add32(Add32(r.ret, U32(4)), alignment), U32(1)),
                      Not32(Sub32(alignment, U32(1)))))

\* kmalloc_aligned: the new state, the returned pointer and raw_mem.
kmalloc_aligned(H, size, alignment) ==
    IF And32(alignment, Sub32(alignment, U32(1))) # NULL
    THEN [h |-> H, ret |-> NULL, raw |-> NULL]
    ELSE Padded(kmalloc(H, Add32(size, Add32(alignment, U32(4)))), alignment)

\* ------------------------------------------------------------ heap inputs
\* Maps the heap runs boot from, one AVAILABLE region at 1 MiB under a reserved
\* first MiB: 40 frames (20 are left after kheap_init), 21 frames (one is
\* left), and 12 frames (too few for the 16 pages of kheap_init).
HeapMaps ==
    { << Entry(0, 0, 256 * PAGE_SIZE, MEMORY_REGION_RESERVED),
         Entry(256, 0, n * PAGE_SIZE, MEMORY_REGION_AVAILABLE) >> : n \in {40, 21, 12} }

\* Sizes passed to kmalloc and krealloc: 1; 5000 (two pages when the heap has
\* to grow); 65520 (with its header, the whole initial heap); 0xC00000 (more
\* than heap_max allows); 0xFFC00000 (heap_end + pages * 4096 wraps);
\* 0xFFFFF000 (the page count wraps to 0); 0xFFFFFFED (total_size rounds up to
\* 0); 0xFFFFFFF0 (size + sizeof(header) wraps to 0).
SizeArgs ==
    { U32(1), U32(5000), U32(65520), W(3072, 0), W(1047552, 0), W(1048575, 0),
      W(1048575, 4077), W(1048575, 4080) }
ReallocSizes == { U32(0), U32(1), U32(5000) }

\* Pointers passed to kfree and krealloc besides the live allocations: null,
\* the first pointer kmalloc ever returns (live, freed or stale), and an
\* address inside that allocation.
PtrArgs == { NULL, W(1024, HeaderSize), W(1024, HeaderSize + 4) }

\* ------------------------------------------------------------ heap state machine
SetHeap(H) ==
    /\ SetMachine(H.m)
    /\ heap_total' = H.heap_total
    /\ heap_used' = H.heap_used
    /\ heap_free' = H.heap_free
    /\ heap_start' = H.heap_start
    /\ heap_end' = H.heap_end
    /\ heap_max' = H.heap_max
    /\ first_block' = H.first_block
    /\ hdr' = H.hdr
    /\ halted' = H.status

\* The state after pmm_init and paging_init, before kheap_init.
InitHeap ==
    /\ memory_map \in HeapMaps
    /\ kernel_end = 0
    /\ LET r == paging_init([pmm |-> pmm_init(memory_map, kernel_end),
                             mem |-> [fill |-> NULL, tab |-> << >>],
                             current_directory |-> NULL])
       IN /\ bitmap = r.m.pmm.bitmap
          /\ bitmap_ptr = r.m.pmm.bitmap_ptr
          /\ bitmap_size = r.m.pmm.bitmap_size
          /\ total_memory = r.m.pmm.total_memory
          /\ used_memory = r.m.pmm.used_memory
          /\ free_memory = r.m.pmm.free_memory
          /\ total_pages = r.m.pmm.total_pages
          /\ current_directory = r.m.current_directory
          /\ mem = r.m.mem
          /\ cr3 = r.kernel_dir
    /\ cr0_pg = TRUE
    /\ HeapUnset
    /\ op = [name |-> "paging_init", arg |-> NULL, pa |-> NULL, ret |-> NULL, pre |-> FALSE]
    /\ phase = "mixed"
    /\ held = << >>

\* Values of op for the heap calls: arg is the pointer passed, pa the size,
\* ret the pointer returned, pre the number of expand_heap calls made (for
\* kfree, the header found in front of the pointer).
HeapOp(name, ptr, size, ret, H) ==
    [name |-> name, arg |-> ptr, pa |-> size, ret |-> ret, pre |-> H.expands]

KheapInit ==
    /\ halted = "ok" /\ heap_start = NULL
    /\ \E H \in {kheap_init(Heap)} :
          /\ SetHeap(H)
          /\ op' = HeapOp("kheap_init", NULL, NULL, NULL, H)
    /\ UNCHANGED <<memory_map, kernel_end, cr3, cr0_pg, phase, held, live, calls>>

Kmalloc(size) ==
    /\ halted = "ok" /\ heap_start # NULL /\ calls < MaxCalls
    /\ \E r \in {kmalloc(Heap, size)} :
          /\ SetHeap(r.h)
          /\ op' = HeapOp("kmalloc", NULL, size, r.ret, r.h)
          /\ live' = IF r.ret # NULL THEN live \cup {[ptr |-> r.ret, size |-> size]} ELSE live
    /\ calls' = calls + 1
    /\ UNCHANGED <<memory_map, kernel_end, cr3, cr0_pg, phase, held>>

\* The allocations that stay live when ptr is released.
Without(ptr) == { a \in live : a.ptr # ptr }
IsLive(ptr) == \E a \in live : a.ptr = ptr

Kfree(ptr) ==
    /\ halted = "ok" /\ heap_start # NULL /\ calls < MaxCalls
    /\ \E H \in {kfree(Heap, ptr)} :
          /\ SetHeap(H)
          \* for kfree, pre is the header the call found in front of ptr
          /\ op' = [HeapOp("kfree", ptr, NULL, NULL, H)
                        EXCEPT !.pre = HdrAt(Heap, Sub32(ptr, U32(HeaderSize)))]
    /\ live' = Without(ptr)
    /\ calls' = calls + 1
    /\ UNCHANGED <<memory_map, kernel_end, cr3, cr0_pg, phase, held>>

Krealloc(ptr, size) ==
    /\ halted = "ok" /\ heap_start # NULL /\ calls < MaxCalls
    /\ \E r \in {krealloc(Heap, ptr, size)} :
          /\ SetHeap(r.h)
          /\ op' = HeapOp("krealloc", ptr, size, r.ret, r.h)
          \* a pointer that was not live and comes back unchanged is no allocation
          /\ live' = IF r.ret # NULL /\ (r.ret # ptr \/ IsLive(ptr))
                     THEN Without(ptr) \cup {[ptr |-> r.ret, size |-> size]}
                     ELSE IF size = NULL THEN Without(ptr)
                     ELSE live
    /\ calls' = calls + 1
    /\ UNCHANGED <<memory_map, kernel_end, cr3, cr0_pg, phase, held>>

LivePtrs == { a.ptr : a \in live }

NextHeap ==
    \/ KheapInit
    \/ \E size \in SizeArgs : Kmalloc(size)
    \/ \E ptr \in PtrArgs \cup LivePtrs : Kfree(ptr)
    \/ \E ptr \in PtrArgs \cup LivePtrs, size \in ReallocSizes : Krealloc(ptr, size)

SpecHeap == InitHeap /\ [][NextHeap]_vars

\* Sizes passed to krealloc where growing is the subject: those of
\* ReallocSizes, and 0xC00000 (more than heap_max allows).
GrowSizes == ReallocSizes \cup { W(3072, 0) }

\* The heap under krealloc: allocations of 1 and 5000 bytes, then krealloc on
\* any pointer with any of GrowSizes.
NextRealloc ==
    \/ KheapInit
    \/ \E size \in { U32(1), U32(5000) } : Kmalloc(size)
    \/ \E ptr \in PtrArgs \cup LivePtrs, size \in GrowSizes : Krealloc(ptr, size)

SpecRealloc == InitHeap /\ [][NextRealloc]_vars

\* Arguments of kmalloc_aligned: sizes 1, 5000 and 0xFFFFFFF0 (size + padding
\* wraps for an alignment of 16); alignments 0, 3, 16 and 4096.
AlignedSizes == { U32(1), U32(5000), W(1048575, 4080) }
Alignments == { U32(0), U32(3), U32(16), U32(4096) }

\* For kmalloc_aligned, arg of op is the alignment and pre is raw_mem.
KmallocAligned(size, alignment) ==
    /\ halted = "ok" /\ heap_start # NULL /\ calls < MaxCalls
    /\ \E r \in {kmalloc_aligned(Heap, size, alignment)} :
          /\ SetHeap(r.h)
          /\ op' = [HeapOp("kmalloc_aligned", alignment, size, r.ret, r.h) EXCEPT !.pre = r.raw]
          /\ live' = IF r.raw # NULL
                     THEN live \cup {[ptr |-> r.raw, size |-> Add32(size, Add32(alignment, U32(4)))]}
                     ELSE live
    /\ calls' = calls + 1
    /\ UNCHANGED <<memory_map, kernel_end, cr3, cr0_pg, phase, held>>

\* The heap under kmalloc_aligned.
NextAligned ==
    \/ KheapInit
    \/ \E size \in AlignedSizes, alignment \in Alignments : KmallocAligned(size, alignment)

SpecAligned == InitHeap /\ [][NextAligned]_vars

\* ------------------------------------------------------------ PMM claims

\* The state this behaviour started from: what pmm_init left.
PostInit == pmm_init(memory_map, kernel_end)

\* w is the byte address page * 4096 + off.
IsAddr(w, page, off) == w.hi = page /\ w.lo = off

\* C1: after pmm_init and any sequence of PMM calls, used_memory + free_memory
\* equals total_memory in uint64_t arithmetic, and free_memory is 4096 times the
\* number of clear bits among bits 0..total_pages-1. The counters are held as
\* representatives of magnitude far below 2^63, so the sum of two of them is
\* congruent to a third modulo 2^64 exactly when it equals it.
C1_Accounting ==
    /\ used_memory + free_memory = total_memory
    /\ free_memory = PAGE_SIZE * Cardinality(FreeFrames(Pmm))

\* pmm_free_page has just released a frame that pmm_init had left used.
C1_Witness ==
    /\ op.name = "pmm_free_page" /\ ~op.pre
    /\ op.arg.hi < total_pages /\ op.arg.hi \notin PostInit.bitmap

\* C2: whenever a frame is free, pmm_alloc_page returns 4096 * i for the lowest
\* clear bit i, sets bit i and changes no other bit.
C2_LowestFree ==
    [][ (op'.name = "pmm_alloc_page" /\ FreeFrames(Pmm) # {}) =>
            /\ IsAddr(op'.ret, LowestFree(Pmm), 0)
            /\ bitmap' = bitmap \ {LowestFree(Pmm)} ]_vars

\* C3: pmm_alloc_page returns 0 exactly when no frame is free, and then leaves
\* the bitmap and the counters as they were: 0 never stands for an allocated
\* frame.
C3_ZeroIsFailure ==
    [][ op'.name = "pmm_alloc_page" =>
            /\ (op'.ret = NULL <=> FreeFrames(Pmm) = {})
            /\ (op'.ret = NULL => pmmvars' = pmmvars) ]_vars

\* C4: successful allocations after pmm_init, each then freed once, in any
\* order, leave the bitmap and the counters at their post-init values.
C4_RoundTrip ==
    (phase \in {"alloc", "free"} /\ held = << >>) =>
        /\ bitmap = PostInit.bitmap
        /\ free_memory = PostInit.free_memory
        /\ used_memory = PostInit.used_memory

\* C5: pmm_free_page of an address past the last frame, or of a frame that is
\* already free, changes neither the bitmap nor the counters.
C5_FreeNoOp ==
    [][ (op'.name = "pmm_free_page"
         /\ (op'.arg.hi >= total_pages \/ op'.arg.hi \in bitmap)) =>
            pmmvars' = pmmvars ]_vars

\* A double free has just been made.
C5_Witness ==
    op.name = "pmm_free_page" /\ op.arg.hi < total_pages /\ op.pre

\* The bytes of frame p lie in the region of one entry of the map.
FrameInside(p, entry) ==
    /\ ~Less64(W(p, 0), entry.base_addr)
    /\ ~Less64(Add64(entry.base_addr, entry.length), W(p + 1, 0))
\* Frame p and the region of the entry share a byte.
FrameMeets(p, entry) ==
    /\ Less64(entry.base_addr, W(p + 1, 0))
    /\ Less64(W(p, 0), Add64(entry.base_addr, entry.length))

\* C6: right after pmm_init with a memory map every free frame lies inside an
\* AVAILABLE region and holds no byte of a region of another type.
C6_FreeIsAvailable ==
    (op.name = "pmm_init" /\ Len(memory_map) > 0) =>
        \A p \in FreeFrames(Pmm) :
            /\ \E i \in 1..Len(memory_map) :
                  /\ memory_map[i].type = MEMORY_REGION_AVAILABLE
                  /\ FrameInside(p, memory_map[i])
            /\ \A i \in 1..Len(memory_map) :
                  memory_map[i].type # MEMORY_REGION_AVAILABLE =>
                      ~FrameMeets(p, memory_map[i])

\* The first call after pmm_init with the seed map and &end = 0 was a
\* pmm_alloc_page.
SeedFirstAlloc ==
    /\ memory_map = SeedMap /\ kernel_end = 0
    /\ phase = "alloc" /\ Len(held) = 1 /\ op.name = "pmm_alloc_page"

\* C7 as stated: with the seed map and &end = 0, total_memory is 0xF00000 and
\* the first pmm_alloc_page returns 0x100000.
C7_SeedAsStated ==
    /\ (memory_map = SeedMap /\ kernel_end = 0) => total_memory = 3840 * PAGE_SIZE
    /\ SeedFirstAlloc => IsAddr(op.ret, 256, 0)

\* C7 amended: total_memory is 0xF00000 and the first pmm_alloc_page returns
\* 0x101000, the frame after the one that holds the bitmap.
C7_SeedFirstFrame ==
    /\ (memory_map = SeedMap /\ kernel_end = 0) => total_memory = 3840 * PAGE_SIZE
    /\ SeedFirstAlloc => IsAddr(op.ret, 257, 0)

C7_Witness == SeedFirstAlloc

\* ------------------------------------------------------------ paging claims

\* Offsets inside a page the translations are compared at: 0, 1, 0xABC, 4095.
Offsets == { 0, 1, 2748, PAGE_SIZE - 1 }

\* C8: when paging_init returns, the directory in CR3, which is the current
\* directory, maps every page of the first 4 MiB to itself: each is present
\* and translates to its own address.
C8_IdentityMapped ==
    op.name = "paging_init" =>
        /\ cr0_pg
        /\ cr3 = current_directory
        /\ \A p \in 0..(((4 * 1024 * 1024) \div PAGE_SIZE) - 1) :
              /\ paging_is_page_present(Machine, W(p, 0))
              /\ \A off \in Offsets :
                    paging_get_physical_address(Machine, W(p, off)) = W(p, off)

\* C9: after paging_map_page(va, pa, PRESENT|WRITABLE) with aligned va and pa,
\* va is present and va + off translates to pa + off for every off < 4096.
C9_MapRoundTrip ==
    op.name = "paging_map_page" =>
        /\ paging_is_page_present(Machine, op.arg)
        /\ \A off \in Offsets :
              paging_get_physical_address(Machine, W(op.arg.hi, off)) = W(op.pa.hi, off)

\* C10: after paging_unmap_page(va), va is not present and translates to 0;
\* when the directory has no page table for va, the call changes nothing: no
\* table memory, no PMM state.
C10_Unmap ==
    [][ op'.name = "paging_unmap_page" =>
            /\ ~paging_is_page_present(Machine', op'.arg)
            /\ paging_get_physical_address(Machine', op'.arg) = NULL
            /\ ~IsPresent(WordAt(mem, current_directory.hi, pd_index(op'.arg))) =>
                   (pmmvars' = pmmvars /\ pagingvars' = pagingvars) ]_vars

\* A page that was present has just been unmapped.
C10_Witness == op.name = "paging_unmap_page" /\ op.pre

\* Frames a paging_alloc_and_map(va, ..) call needs in the current state: the
\* data frame, and one more when the directory has no page table for va.
FramesNeeded(va) ==
    IF IsPresent(WordAt(mem, current_directory.hi, pd_index(va))) THEN 1 ELSE 2

\* C11: a paging_alloc_and_map that returns nonzero returns the aligned va,
\* now mapped to a frame that was free before and is used after; when the PMM
\* has fewer free frames than the call needs it returns 0 and changes no
\* directory or table entry.
C11_AllocAndMap ==
    [][ op'.name = "paging_alloc_and_map" =>
            /\ op'.ret # NULL =>
                   /\ op'.ret = PageBase(op'.arg)
                   /\ paging_is_page_present(Machine', op'.ret)
                   /\ pmm_is_page_free(Pmm, paging_get_physical_address(Machine', op'.ret))
                   /\ bitmap_test(Pmm', paging_get_physical_address(Machine', op'.ret).hi)
            /\ Cardinality(FreeFrames(Pmm)) < FramesNeeded(op'.arg) =>
                   (op'.ret = NULL /\ mem' = mem) ]_vars

\* ------------------------------------------------------------ heap claims

\* The page numbers of [heap_start, heap_end).
HeapPages == heap_start.hi .. (heap_end.hi - 1)

\* C12: after kheap_init and any heap calls, every page of [heap_start,
\* heap_end) is present in the current directory and backed by a frame that
\* is marked used and backs no other heap page; heap_end never passes a page
\* the PMM could not back.
C12_HeapBacked ==
    (heap_start # NULL) =>
        \A p \in HeapPages :
            /\ paging_is_page_present(Machine, W(p, 0))
            /\ bitmap_test(Pmm, paging_get_physical_address(Machine, W(p, 0)).hi)
            /\ \A q \in HeapPages \ {p} :
                  paging_get_physical_address(Machine, W(q, 0))
                      # paging_get_physical_address(Machine, W(p, 0))

\* The addresses met walking first_block through next, up to the end of the
\* list or to the first address met twice (which the sequence then ends with).
RECURSIVE Walk(_, _)
Walk(current, sofar) ==
    IF current = NULL THEN sofar
    ELSE IF \E i \in 1..Len(sofar) : sofar[i] = current THEN Append(sofar, current)
    ELSE Walk(hdr[current].next, Append(sofar, current))
BlockList == Walk(first_block, << >>)

\* The sum of the size fields of the blocks of a walk, in size_t arithmetic.
RECURSIVE SumSizes(_, _)
SumSizes(L, i) == IF i > Len(L) THEN NULL ELSE Add32(hdr[L[i]].size, SumSizes(L, i + 1))

\* The heap is initialised and the last call has returned.
HeapReady == heap_start # NULL /\ halted = "ok"

\* C13: after kheap_init and any heap calls, the walk from first_block starts
\* at heap_start, visits strictly increasing addresses, and the size fields
\* add up to heap_end - heap_start.
C13_AddressOrder ==
    HeapReady =>
        /\ Len(BlockList) > 0
        /\ BlockList[1] = heap_start
        /\ \A i \in 1..(Len(BlockList) - 1) : Less32(BlockList[i], BlockList[i + 1])
        /\ SumSizes(BlockList, 1) = Sub32(heap_end, heap_start)

\* The first byte after the n bytes at a, not reduced modulo 2^32.
EndOf(a, n) == W(a.hi + n.hi + ((a.lo + n.lo) \div PAGE_SIZE), (a.lo + n.lo) % PAGE_SIZE)
\* The an bytes at a and the bn bytes at b share a byte.
Overlap(a, an, b, bn) ==
    /\ an # NULL /\ bn # NULL
    /\ Less32(a, EndOf(b, bn)) /\ Less32(b, EndOf(a, an))

\* C14: the byte ranges [p, p + requested size) of two live allocations are
\* disjoint, and none overlaps the header of a block of the list.
C14_NoOverlap ==
    HeapReady =>
        \A a \in live :
            /\ \A b \in live \ {a} : ~Overlap(a.ptr, a.size, b.ptr, b.size)
            /\ \A i \in 1..Len(BlockList) :
                  ~Overlap(a.ptr, a.size, BlockList[i], U32(HeaderSize))

\* Before a kmalloc(size): no block of the list fits the request.
NoFit(size) == FindFit(Heap, first_block, TotalSize(size), {}).kind = "none"
\* ceil(total_size / 4096) more pages would put heap_end past heap_max.
PastMax(size) ==
    LET total_size == TotalSize(size)
        pages == total_size.hi + (IF total_size.lo > 0 THEN 1 ELSE 0)
    IN Less32(heap_max, EndOf(heap_end, W(pages, 0)))

\* C15: kmalloc returns null exactly when no free block fits and the pages the
\* request needs would put heap_end past heap_max; when no block fits and the
\* growth stays within heap_max, heap_end advances by at least a page and the
\* call returns a non-null pointer.
C15_NullExactlyAtBound ==
    [][ op'.name = "kmalloc" =>
            /\ (NoFit(op'.pa) /\ PastMax(op'.pa)) => (halted' = "ok" /\ op'.ret = NULL)
            /\ (halted' = "ok" /\ op'.ret = NULL) => (NoFit(op'.pa) /\ PastMax(op'.pa))
            /\ (NoFit(op'.pa) /\ ~PastMax(op'.pa)) =>
                   /\ halted' = "ok" /\ op'.ret # NULL
                   /\ ~Less32(heap_end', Add32(heap_end, U32(PAGE_SIZE))) ]_vars

\* C16: every kmalloc returns, after at most one expand_heap call.
C16_OneExpansion ==
    [][ op'.name = "kmalloc" => (halted' # "hang" /\ op'.pre <= 1) ]_vars

\* C17: once the heap is initialised, heap_start = 0x00400000, heap_max =
\* 0x01000000 and heap_start <= heap_end <= heap_max, whatever sizes kmalloc
\* was called with.
C17_HeapBounds ==
    (heap_start # NULL) =>
        /\ heap_start = W(1024, 0)
        /\ heap_max = W(4096, 0)
        /\ ~Less32(heap_end, heap_start)
        /\ ~Less32(heap_max, heap_end)

\* C18: a non-null p returned by kmalloc(size) is the address after a header
\* of the list's memory, is 4-byte aligned, heads at least size usable bytes,
\* and [p, p + size) lies inside [heap_start, heap_end).
C18_ReturnedBlock ==
    (op.name = "kmalloc" /\ halted = "ok" /\ op.ret # NULL) =>
        LET block == Sub32(op.ret, U32(HeaderSize))
        IN /\ block \in DOMAIN hdr
           /\ hdr[block].magic = HEAP_MAGIC
           /\ op.ret.lo % 4 = 0
           /\ ~Less32(Sub32(hdr[block].size, U32(HeaderSize)), op.pa)
           /\ ~Less32(op.ret, heap_start)
           /\ ~Less32(heap_end, EndOf(op.ret, op.pa))

\* The list is one free block at heap_start that covers the heap.
OneBlock ==
    /\ BlockList = << heap_start >>
    /\ hdr[heap_start].is_free
    /\ hdr[heap_start].size = Sub32(heap_end, heap_start)

\* C19: once every live allocation has been passed to kfree, the block list
\* is one free block at heap_start of size heap_end - heap_start.  (A state in
\* which an allocating call has page-faulted is no state between calls.)
C19_Coalesced ==
    (heap_start # NULL /\ halted # "fault" /\ live = {}) => OneBlock

\* kfree(ptr) returns at one of its three tests: ptr is null, the header in
\* front of it has a wrong magic, or the block is already free.
Ignored(ptr) ==
    \/ ptr = NULL
    \/ HdrAt(Heap, Sub32(ptr, U32(HeaderSize))).magic # HEAP_MAGIC
    \/ HdrAt(Heap, Sub32(ptr, U32(HeaderSize))).is_free

\* C20: kfree(null), kfree of a block that is already free and kfree of a
\* block whose magic is wrong return and leave the block list, every header
\* (so every is_free flag) and heap_total, heap_used and heap_free as they were.
C20_IgnoredFree ==
    [][ (op'.name = "kfree" /\ Ignored(op'.arg)) =>
            /\ halted' = "ok"
            /\ UNCHANGED <<hdr, first_block, heap_total, heap_used, heap_free,
                           heap_start, heap_end, heap_max>> ]_vars

\* The third call after kheap_init was kfree(p) on the first allocation, whose
\* block (split off by the kmalloc that returned p) the second call had freed.
C20_Witness ==
    /\ op.name = "kfree" /\ op.arg = W(1024, HeaderSize)
    /\ halted = "ok" /\ calls = 3
    /\ op.pre.magic = HEAP_MAGIC /\ op.pre.is_free
    /\ Cardinality(DOMAIN hdr) >= 2

\* The blocks of the list, each once.
Blocks == { BlockList[i] : i \in 1..Len(BlockList) }

\* C26: between heap calls every block of the list has size >= MIN_BLOCK_SIZE
\* and carries HEAP_MAGIC, whatever sizes kmalloc was called with.
C26_BlockSizes ==
    HeapReady =>
        \A b \in Blocks :
            /\ hdr[b].magic = HEAP_MAGIC
            /\ ~Less32(hdr[b].size, U32(MIN_BLOCK_SIZE))

\* The sum of the size fields of the blocks in S, in size_t arithmetic.
RECURSIVE SumOver(_)
SumOver(S) ==
    IF S = {} THEN NULL
    ELSE LET b == CHOOSE x \in S : TRUE
         IN Add32(hdr[b].size, SumOver(S \ {b}))

AllocatedBlocks == { b \in Blocks : ~hdr[b].is_free }
FreeBlocks == { b \in Blocks : hdr[b].is_free }

C30_StatsConsistent ==
    HeapReady =>
        /\ heap_total = Sub32(heap_end, heap_start)
        /\ Add32(heap_used, heap_free) = heap_total
        /\ heap_free = SumOver(FreeBlocks)

\* What the scan of a kmalloc(size) finds in the current state.
Picked(size) == FindFit(Heap, first_block, TotalSize(size), {})

\* C27: when a kmalloc that returns picks the free block B for total_size
\* bytes: if B.size >= total_size + MIN_BLOCK_SIZE, B gets size total_size and
\* a new free block of size B.size - total_size at B + total_size stands
\* between B and B's former next; otherwise B keeps its size and its next and
\* no header is written besides B's.
C27_Split ==
    [][ (op'.name = "kmalloc" /\ halted' = "ok" /\ Picked(op'.pa).kind = "fit") =>
            LET B == Picked(op'.pa).block
                total_size == TotalSize(op'.pa)
                new_block == Add32(B, total_size)
            IN /\ op'.ret = Add32(B, U32(HeaderSize))
               /\ ~hdr'[B].is_free
               /\ IF ~Less32(hdr[B].size, EndOf(total_size, U32(MIN_BLOCK_SIZE)))
                  THEN /\ hdr'[B].size = total_size
                       /\ hdr'[B].next = new_block
                       /\ new_block \in DOMAIN hdr'
                       /\ hdr'[new_block] = [size |-> Sub32(hdr[B].size, total_size),
                                             magic |-> HEAP_MAGIC, is_free |-> TRUE,
                                             next |-> hdr[B].next]
                  ELSE /\ hdr'[B].size = hdr[B].size
                       /\ hdr'[B].next = hdr[B].next
                       /\ \A a \in DOMAIN hdr' \ {B} : a \in DOMAIN hdr /\ hdr'[a] = hdr[a] ]_vars

\* C29: no heap call lowers heap_end, unmaps a page of the heap or returns a
\* frame to the PMM.
C29_NeverShrinks ==
    [][ op'.name \in {"kheap_init", "kmalloc", "kfree", "krealloc"} =>
            /\ ~Less32(heap_end', heap_end)
            /\ \A p \in HeapPages :
                  paging_is_page_present(Machine, W(p, 0)) =>
                      paging_is_page_present(Machine', W(p, 0))
            /\ FreeFrames(Pmm') \subseteq FreeFrames(Pmm) ]_vars

\* The frames that hold a byte of the bitmap storage [bitmap, bitmap +
\* bitmap_size) after pmm_init.
BitmapFrames ==
    IF bitmap_size = 0 THEN {}
    ELSE bitmap_ptr.hi .. EndOf(bitmap_ptr, U32(bitmap_size - 1)).hi

\* The frames below ceil(kernel end / 4096); the fallback path marks none.
KernelFrames ==
    IF Len(memory_map) = 0 THEN {}
    ELSE 0 .. (((kernel_end + PAGE_SIZE - 1) \div PAGE_SIZE) - 1)

\* C25: right after pmm_init no frame that holds a byte of the bitmap and, on
\* the map path, no frame below the kernel end is one pmm_alloc_page can
\* return; and while no pmm_free_page has been called, no pmm_alloc_page
\* returns such a frame.
C25_BitmapFramesUsed ==
    /\ op.name = "pmm_init" => (BitmapFrames \cup KernelFrames) \cap FreeFrames(Pmm) = {}
    /\ (phase = "alloc" /\ op.name = "pmm_alloc_page" /\ op.ret # NULL) =>
           op.ret.hi \notin BitmapFrames \cup KernelFrames

\* The physical addresses the paging functions dereference: the current
\* directory and every page table a present directory entry points to.
TablesInUse ==
    { current_directory } \cup
    { PageBase(WordAt(mem, current_directory.hi, i)) :
        i \in { j \in 0..1023 : IsPresent(WordAt(mem, current_directory.hi, j)) } }

\* C24: once paging is enabled, the directory and every page table the paging
\* functions reach through a physical address are identity-mapped in the
\* current directory: present, and translated to their own address.
C24_TablesIdentityMapped ==
    cr0_pg =>
        \A t \in TablesInUse :
            /\ paging_is_page_present(Machine, t)
            /\ paging_get_physical_address(Machine, t) = t

\* The header in front of ptr, before and after a step.
BlockOf(ptr) == Sub32(ptr, U32(HeaderSize))

\* C23: krealloc(ptr, size) with ptr null does what kmalloc(size) does.  With
\* a live ptr it returns: with size 0 it frees the block and returns null; with
\* size within the block's usable size it returns ptr and
\* changes nothing; with a larger size it either returns another pointer, to
\* an allocated block of at least size usable bytes, and has freed the old
\* block, or returns null and leaves the old block allocated.  (The bytes of
\* the allocations are not part of the state.)
C23_Realloc ==
    [][ op'.name = "krealloc" =>
            LET ptr == op'.arg
                size == op'.pa
                usable == Sub32(hdr[BlockOf(ptr)].size, U32(HeaderSize))
            IN /\ ptr = NULL =>
                      /\ op'.ret = kmalloc(Heap, size).ret
                      /\ hdr' = kmalloc(Heap, size).h.hdr
                      /\ halted' = kmalloc(Heap, size).h.status
               /\ IsLive(ptr) => halted' = "ok"
               /\ (IsLive(ptr) /\ size = NULL) =>
                      /\ op'.ret = NULL
                      /\ hdr'[BlockOf(ptr)].is_free
               /\ (IsLive(ptr) /\ size # NULL /\ ~Less32(usable, size)) =>
                      /\ op'.ret = ptr
                      /\ UNCHANGED <<hdr, first_block, heap_total, heap_used, heap_free,
                                     heap_start, heap_end, heap_max>>
               /\ (IsLive(ptr) /\ size # NULL /\ Less32(usable, size)) =>
                      IF op'.ret = NULL
                      THEN ~hdr'[BlockOf(ptr)].is_free
                      ELSE /\ op'.ret # ptr
                           /\ BlockOf(op'.ret) \in DOMAIN hdr'
                           /\ ~hdr'[BlockOf(op'.ret)].is_free
                           /\ ~Less32(Sub32(hdr'[BlockOf(op'.ret)].size, U32(HeaderSize)), size)
                           /\ hdr'[BlockOf(ptr)].is_free ]_vars

\* The alignment is a power of two: 1, 2, 4, ...
IsPowerOfTwo(alignment) ==
    alignment # NULL /\ And32(alignment, Sub32(alignment, U32(1))) = NULL

\* The word in memory at a, a not a field of a header.
WordOf(a) == WordAt(mem, paging_get_physical_address(Machine, a).hi, a.lo \div 4)

\* C21: kmalloc_aligned(n, a) with a a power of two returns, null or a pointer
\* p that is a multiple of a, with the bytes [p - 4, p + n) inside the raw
\* allocation (from raw_mem to the end of its block) and raw_mem in the word at
\* p - 4.
C21_Aligned ==
    (op.name = "kmalloc_aligned" /\ IsPowerOfTwo(op.arg)) =>
        /\ halted = "ok"
        /\ op.ret # NULL =>
              LET p == op.ret
                  n == op.pa
                  raw == op.pre
                  block == BlockOf(raw)
              IN /\ And32(p, Sub32(op.arg, U32(1))) = NULL
                 /\ block \in DOMAIN hdr /\ ~hdr[block].is_free
                 /\ ~Less32(Sub32(p, U32(4)), raw)
                 /\ ~Less32(EndOf(block, hdr[block].size), EndOf(p, n))
                 /\ WordOf(Sub32(p, U32(4))) = raw

\* C22: kmalloc_aligned with an alignment that is not a power of two, 0
\* included, returns null and leaves the heap, the page tables and the frames
\* as they were.
C22_BadAlignment ==
    [][ (op'.name = "kmalloc_aligned" /\ ~IsPowerOfTwo(op'.arg)) =>
            /\ op'.ret = NULL
            /\ halted' = "ok"
            /\ UNCHANGED <<hdr, first_block, heap_total, heap_used, heap_free,
                           heap_start, heap_end, heap_max, mem, bitmap>> ]_vars

\* Pages whose translation is compared across a call: the pages of VaArgs, the
\* page after each, page 0, and the first two pages of the last 4 MiB.
OtherPages ==
    { W(p, 0) : p \in { 0, 5, 6, 1024, 1025, 524288, 524289,
                        Pages4G - 1024, Pages4G - 1023, Pages4G - 2, Pages4G - 1 } }

\* The addresses the recursive slot of the directory serves: the last 4 MiB,
\* where the page tables and the directory itself appear as pages.
InWindow(va) == pd_index(va) = RECURSIVE_INDEX

\* The results of paging_is_page_present(vb) and
\* paging_get_physical_address(vb) are the same after the step as before it.
Kept(vb) ==
    /\ paging_is_page_present(Machine', vb) = paging_is_page_present(Machine, vb)
    /\ paging_get_physical_address(Machine', vb) = paging_get_physical_address(Machine, vb)

====
